---- MODULE Spec2Model ----
(***************************************************************************)
(* Model of the client-side Model Load Queue (class ModelLoadQueue of the  *)
(* useModelLoader hook): the pending queue, the in-flight set, the abort   *)
(* controllers, the loaded-model map, the load operations in flight, and   *)
(* the idle-eviction sweep.                                                *)
(*                                                                         *)
(* It also models the preview server: the thumbnail cache behind the       *)
(* thumbnail and folder-preview endpoints, the texture resolver            *)
(* (findColormap) and the first-asset finder (findFirstAsset).             *)
(*                                                                         *)
(* Every action is one run-to-completion piece of JavaScript: a public     *)
(* method called by the UI, a timer callback, or the continuation of one   *)
(* load operation after one of its suspension points.                      *)
(***************************************************************************)
EXTENDS Integers, Sequences, FiniteSets, TLC

\* ------------------------------------------------------------ constants

\* private maxConcurrent = 4
maxConcurrent == 4
\* private maxLoaded = 15
maxLoaded == 15
\* timeSinceLastUse > 120000 (milliseconds)
IdleThreshold == 120000
\* setInterval(..., 30000) (milliseconds); the clock of the model advances
\* in steps of this length
SweepInterval == 30000

\* if (thumbnailCache.size > 100), keys.length - 100
CacheCapacity == 100
\* parseInt(req.query.size) || 200
DefaultSize == 200

\* ------------------------------------------------------------ bounds

\* request ids 1..NumIds
NumIds == 4
\* priorities 0..MaxPriority
MaxPriority == 1
\* addRequest calls in a run that starts at construction
MaxRequests == 3
\* removeRequest and clearAll calls, unmounts, failed loads and clock steps
\* in a run that starts at construction
MaxDisturbances == 2
\* further addRequest calls in a run that starts with all load slots taken
BusyRequests == 1
\* removeRequest and clearAll calls, unmounts, failed loads and clock steps
\* in a run that starts with all load slots taken
BusyDisturbances == 1
\* clock steps in a run that starts at construction or with all slots taken
MaxTicks == 1
\* addRequest calls in a run that starts with maxLoaded or more loaded models
SweepRequests == 2
\* clock steps, removeRequest and clearAll calls, unmounts and failed loads
\* in a run that starts with maxLoaded or more loaded models
SweepTicks == 2
\* loaded models beyond maxLoaded at the start of such a run
SweepExcess == 1
\* pending setTimeout(processQueue, 0) callbacks
MaxTimers == 1
\* requests to the server in a run
MaxServed == 2
\* modifications of one file in a run
MaxMtime == 1
\* entries short of CacheCapacity in the cache at the start of a server run
CacheSlack == 1
\* names in a directory listing of the file systems the resolver is run on
MaxListing == 2
MaxEntries == 2

Ids == 1..NumIds
Priorities == 0..MaxPriority

VARIABLES
  queue,            \* this.queue: sequence of requests [id, priority, seq]
  loading,          \* this.loading: set of ids
  abortControllers, \* this.abortControllers: id -> seq of the load owning the controller
  loadedModels,     \* this.loadedModels: id -> [seq, lastUsed]
  loads,            \* load operations started and not yet ended
  detached,         \* ids whose containerRef.current is null
  timers,           \* pending setTimeout(() => this.processQueue(), 0) callbacks
  now,              \* Date.now()
  nextSeq,          \* arrival number of the next request
  disturbances,     \* removeRequest and clearAll calls, unmounts, failed loads and clock steps so far
  lastOp,           \* the handler that ran last: [op, id, cb, renderer]
  disposed          \* deepCleanupModel calls of the last handler, per handle

queueVars == <<queue, loading, abortControllers, loadedModels, loads, detached,
               timers, now, nextSeq, disturbances, lastOp, disposed>>

\* The preview server (a process of its own).
VARIABLES
  thumbnailCache,   \* thumbnailCache: the Map as the sequence of its entries [key, value]
  disk,             \* the file system: directory path -> listing
  mtime,            \* stats.mtime of the files that get modified
  served,           \* requests handled so far
  lastServed        \* the last request and its response

serverVars == <<thumbnailCache, disk, mtime, served, lastServed>>

vars == <<queue, loading, abortControllers, loadedModels, loads, detached,
          timers, now, nextSeq, disturbances, lastOp, disposed,
          thumbnailCache, disk, mtime, served, lastServed>>

\* ------------------------------------------------------------ Map helpers

MapSet(m, k, v) == [x \in (DOMAIN m) \cup {k} |-> IF x = k THEN v ELSE m[x]]

MapDelete(m, k) == [x \in (DOMAIN m) \ {k} |-> m[x]]

EmptyMap == [x \in {} |-> 0]

\* ------------------------------------------------------------ the queue

\* The queue left as it is.
FilterQueueKeepsAll(q, id) == q

\* this.queue.filter(r => r.id !== id)
FilterQueue(q, id) == SelectSeq(q, LAMBDA r : r.id # id)

\* One insertion of the stable sort: r goes behind every element whose
\* priority is at least its own.
RECURSIVE InsertByPriority(_, _)
InsertByPriority(sorted, r) ==
  IF sorted = <<>> THEN <<r>>
  ELSE IF Head(sorted).priority >= r.priority
       THEN <<Head(sorted)>> \o InsertByPriority(Tail(sorted), r)
       ELSE <<r>> \o sorted

\* The queue left in arrival order.
SortNothing(q) == q

\* this.queue.sort((a, b) => b.priority - a.priority): Array.prototype.sort
\* is stable, elements of equal priority keep their order.
RECURSIVE SortByPriority(_)
SortByPriority(q) ==
  IF q = <<>> THEN <<>>
  ELSE InsertByPriority(SortByPriority(SubSeq(q, 1, Len(q) - 1)), q[Len(q)])

\* A load operation that has started. Where it stands in loadModel is the
\* environment's (the speed of the imports, the fetches and the parsers): the
\* step that ends it names the suspension point it ends at.
NewLoad(r) ==
  [seq |-> r.seq, id |-> r.id, priority |-> r.priority,
   aborted |-> FALSE, cancelled |-> FALSE, cleared |-> FALSE]

\* The head of the queue is shifted and nothing is started.
processQueueDropsHead(st, det) ==
  IF st.queue = <<>> \/ Cardinality(st.loading) >= maxConcurrent THEN st
  ELSE [st EXCEPT !.queue = Tail(st.queue)]

\* The synchronous part of one processQueue() call, up to its first await:
\* requests whose container is gone are dropped, the first other one is
\* started, and the call suspends in `await this.loadModel(...)`.
RECURSIVE processQueue(_, _)
processQueue(st, det) ==
  IF st.queue = <<>> \/ Cardinality(st.loading) >= maxConcurrent THEN st
  ELSE LET request == Head(st.queue) IN
       IF request.id \in det
       THEN processQueue([st EXCEPT !.queue = Tail(st.queue)], det)
       ELSE [queue |-> Tail(st.queue),
             loading |-> st.loading \cup {request.id},
             abortControllers |-> MapSet(st.abortControllers, request.id, request.seq),
             loads |-> st.loads \cup {NewLoad(request)}]

QueueState == [queue |-> queue, loading |-> loading,
               abortControllers |-> abortControllers, loads |-> loads]

SetQueueState(st) ==
  /\ queue' = st.queue
  /\ loading' = st.loading
  /\ abortControllers' = st.abortControllers
  /\ loads' = st.loads

\* ------------------------------------------------------------ disposal

\* deepCleanupModel is called once on each handle of hs: the number of calls
\* per handle, handles named by the seq of the load that produced them.
DisposeEach(hs) == [h \in hs |-> 1]

NoDisposal == [h \in {} |-> 0]

\* The handles whose scene or renderer raises an error while it is disposed.
Faulty == {1}

\* A deepCleanupModel without its try/catch: the error of a faulty handle
\* reaches the caller.
deepCleanupModelUncaught(h) == h \in Faulty

\* deepCleanupModel(model) throws: never, the whole body is inside
\* try { ... } catch (error) { console.warn(...) }.
deepCleanupModel(h) == FALSE

\* A loop that calls deepCleanupModel on the handles of the ids `ids` in
\* turn: the ids it has called it for when it ends or a call throws.
RECURSIVE CleanupCalls(_, _)
CleanupCalls(lm, ids) ==
  IF ids = <<>> THEN <<>>
  ELSE IF deepCleanupModel(lm[Head(ids)].seq) THEN <<Head(ids)>>
  ELSE <<Head(ids)>> \o CleanupCalls(lm, Tail(ids))

\* A call of the loop throws.
CleanupThrows(lm, ids) == \E i \in 1..Len(ids) : deepCleanupModel(lm[ids[i]].seq)

\* The ids of the loaded models, in the order of their handles.
RECURSIVE InOrder(_, _)
InOrder(lm, ids) ==
  IF ids = {} THEN <<>>
  ELSE LET first == CHOOSE i \in ids : \A j \in ids : lm[i].seq <= lm[j].seq
       IN <<first>> \o InOrder(lm, ids \ {first})

\* forceCleanupAllModels(): deepCleanupModel on every entry, then clear().
forceCleanupAllModels(lm) ==
  LET called == CleanupCalls(lm, InOrder(lm, DOMAIN lm)) IN
  [loadedModels |-> IF CleanupThrows(lm, InOrder(lm, DOMAIN lm)) THEN lm ELSE EmptyMap,
   disposed |-> DisposeEach({lm[called[i]].seq : i \in 1..Len(called)})]

Min(a, b) == IF a <= b THEN a ELSE b

Max(a, b) == IF a >= b THEN a ELSE b

\* modelsToCleanup.sort((a, b) => a[1].lastUsed - b[1].lastUsed) as a sequence
\* of ids, oldest first (entries of equal lastUsed in id order).
RECURSIVE SortByLastUsed(_, _)
SortByLastUsed(lm, ids) ==
  IF ids = {} THEN <<>>
  ELSE LET first == CHOOSE i \in ids : \A j \in ids :
                      \/ lm[i].lastUsed < lm[j].lastUsed
                      \/ (lm[i].lastUsed = lm[j].lastUsed /\ i <= j)
       IN <<first>> \o SortByLastUsed(lm, ids \ {first})

\* A sweep that removes only as many handles as are beyond maxLoaded.
cleanupOldModelsExcessOnly(lm, t) ==
  IF Cardinality(DOMAIN lm) <= maxLoaded
  THEN [loadedModels |-> lm, disposed |-> NoDisposal]
  ELSE LET expired == {id \in DOMAIN lm : t - lm[id].lastUsed > IdleThreshold}
           modelsToCleanup == SortByLastUsed(lm, expired)
           excessCount == Cardinality(DOMAIN lm) - maxLoaded
           n == Min(excessCount, Len(modelsToCleanup))
           cleaned == {modelsToCleanup[i] : i \in 1..n}
       IN [loadedModels |-> [id \in (DOMAIN lm) \ cleaned |-> lm[id]],
           disposed |-> DisposeEach({lm[id].seq : id \in cleaned})]

\* A sweep that removes the idle handles whatever the number loaded.
cleanupOldModelsAnyCount(lm, t) ==
  LET expired == {id \in DOMAIN lm : t - lm[id].lastUsed > IdleThreshold} IN
  [loadedModels |-> [id \in (DOMAIN lm) \ expired |-> lm[id]],
   disposed |-> DisposeEach({lm[id].seq : id \in expired})]

\* cleanupOldModels() at time t.
cleanupOldModels(lm, t) ==
  IF Cardinality(DOMAIN lm) <= maxLoaded
  THEN [loadedModels |-> lm, disposed |-> NoDisposal]
  ELSE LET expired == {id \in DOMAIN lm : t - lm[id].lastUsed > IdleThreshold}
           modelsToCleanup == SortByLastUsed(lm, expired)
           excessCount == Cardinality(DOMAIN lm) - maxLoaded
           toCleanup == Max(Len(modelsToCleanup), excessCount)
           n == Min(toCleanup, Len(modelsToCleanup))
           called == CleanupCalls(lm, SubSeq(modelsToCleanup, 1, n))
           cleaned == {called[i] : i \in 1..Len(called)}
           deleted == IF CleanupThrows(lm, SubSeq(modelsToCleanup, 1, n))
                      THEN cleaned \ {called[Len(called)]}
                      ELSE cleaned
       IN [loadedModels |-> [id \in (DOMAIN lm) \ deleted |-> lm[id]],
           disposed |-> DisposeEach({lm[id].seq : id \in cleaned})]

\* ------------------------------------------------------------ strings, paths

\* String.prototype.includes
Includes(s, sub) ==
  \E i \in 1..(Len(s) - Len(sub) + 1) : SubSeq(s, i, i + Len(sub) - 1) = sub

LowerOf ==
  [c \in {"A", "B", "C", "D", "E", "F", "G", "H", "I", "J", "K", "L", "M",
          "N", "O", "P", "Q", "R", "S", "T", "U", "V", "W", "X", "Y", "Z"} |->
     CASE c = "A" -> "a" [] c = "B" -> "b" [] c = "C" -> "c" [] c = "D" -> "d"
       [] c = "E" -> "e" [] c = "F" -> "f" [] c = "G" -> "g" [] c = "H" -> "h"
       [] c = "I" -> "i" [] c = "J" -> "j" [] c = "K" -> "k" [] c = "L" -> "l"
       [] c = "M" -> "m" [] c = "N" -> "n" [] c = "O" -> "o" [] c = "P" -> "p"
       [] c = "Q" -> "q" [] c = "R" -> "r" [] c = "S" -> "s" [] c = "T" -> "t"
       [] c = "U" -> "u" [] c = "V" -> "v" [] c = "W" -> "w" [] c = "X" -> "x"
       [] c = "Y" -> "y" [] c = "Z" -> "z"]

\* String.prototype.toLowerCase
RECURSIVE toLowerCase(_)
toLowerCase(s) ==
  IF s = "" THEN ""
  ELSE LET c == SubSeq(s, 1, 1) IN
       (IF c \in DOMAIN LowerOf THEN LowerOf[c] ELSE c)
         \o toLowerCase(SubSeq(s, 2, Len(s)))

\* String.prototype.lastIndexOf for a one-character string, 0 if absent.
LastIndexOf(s, c) ==
  LET at == {i \in 1..Len(s) : SubSeq(s, i, i) = c} IN
  IF at = {} THEN 0 ELSE CHOOSE i \in at : \A j \in at : j <= i

\* path.dirname of an absolute path without a trailing slash
dirname(p) ==
  LET i == LastIndexOf(p, "/") IN
  IF i <= 1 THEN "/" ELSE SubSeq(p, 1, i - 1)

\* path.basename(p)
basename(p) == SubSeq(p, LastIndexOf(p, "/") + 1, Len(p))

\* path.extname(p): from the last dot of the base name, "" if there is none
\* or the base name starts with its only dot
extname(p) ==
  LET base == basename(p)
      i == LastIndexOf(base, ".")
  IN IF i <= 1 THEN "" ELSE SubSeq(base, i, Len(base))

\* path.basename(p, ext)
basenameWithout(p, ext) ==
  LET base == basename(p)
      n == Len(base) - Len(ext)
  IN IF n > 0 /\ SubSeq(base, n + 1, Len(base)) = ext
     THEN SubSeq(base, 1, n)
     ELSE base

\* path.join(dir, name)
join(dir, name) == IF dir = "/" THEN "/" \o name ELSE dir \o "/" \o name

\* ------------------------------------------------------------ file system

\* A file system is a function from the paths of its directories to their
\* listings (the sequence of names fs.readdirSync returns).
IsDirectory(tree, p) == p \in DOMAIN tree

Listed(tree, dir) == {tree[dir][i] : i \in 1..Len(tree[dir])}

\* fs.existsSync(p)
existsSync(tree, p) ==
  \/ IsDirectory(tree, p)
  \/ IsDirectory(tree, dirname(p)) /\ basename(p) \in Listed(tree, dirname(p))

\* SUPPORTED_EXTENSIONS
SUPPORTED_EXTENSIONS ==
  [images |-> {".jpg", ".jpeg", ".png", ".gif", ".bmp", ".webp", ".svg"},
   models |-> {".glb", ".gltf", ".fbx", ".obj", ".dae", ".3ds"},
   audio |-> {".mp3", ".wav", ".ogg", ".m4a", ".flac", ".aac"},
   video |-> {".mp4", ".webm", ".mov", ".avi", ".mkv"},
   documents |-> {".txt", ".json", ".xml", ".md", ".url"}]

\* getFileType(filePath)
getFileType(filePath) ==
  LET ext == toLowerCase(extname(filePath)) IN
  IF \E type \in DOMAIN SUPPORTED_EXTENSIONS : ext \in SUPPORTED_EXTENSIONS[type]
  THEN CHOOSE type \in DOMAIN SUPPORTED_EXTENSIONS : ext \in SUPPORTED_EXTENSIONS[type]
  ELSE "unknown"

\* ------------------------------------------------------------ findColormap

\* searchLocations
searchLocations(modelDir) ==
  <<modelDir,
    join(modelDir, "Textures"), join(modelDir, "textures"),
    join(modelDir, "Materials"), join(modelDir, "materials"),
    join(modelDir, "Maps"), join(modelDir, "maps"),
    join(modelDir, "Images"), join(modelDir, "images"),
    dirname(modelDir),
    join(dirname(modelDir), "Textures"), join(dirname(modelDir), "textures"),
    join(dirname(modelDir), "Materials"), join(dirname(modelDir), "materials"),
    join(dirname(modelDir), "Textures"), join(dirname(modelDir), "Materials")>>

\* textureNames
textureNames(modelName) ==
  <<modelName \o ".png", modelName \o ".jpg", modelName \o ".jpeg",
    modelName \o ".tga", modelName \o ".bmp",
    modelName \o "_diffuse.png", modelName \o "_diffuse.jpg",
    modelName \o "_Diffuse.png", modelName \o "_Diffuse.jpg",
    modelName \o "_albedo.png", modelName \o "_albedo.jpg",
    modelName \o "_Albedo.png", modelName \o "_Albedo.jpg",
    modelName \o "_color.png", modelName \o "_color.jpg",
    modelName \o "_Color.png", modelName \o "_Color.jpg",
    modelName \o "_colormap.png", modelName \o "_colormap.jpg",
    modelName \o "_texture.png", modelName \o "_texture.jpg",
    modelName \o "_map.png", modelName \o "_map.jpg",
    "diffuse.png", "diffuse.jpg", "Diffuse.png", "Diffuse.jpg",
    "albedo.png", "albedo.jpg", "Albedo.png", "Albedo.jpg",
    "color.png", "color.jpg", "Color.png", "Color.jpg",
    "colormap.png", "colormap.jpg", "ColorMap.png", "ColorMap.jpg",
    "texture.png", "texture.jpg", "Texture.png", "Texture.jpg",
    "base.png", "base.jpg", "Base.png", "Base.jpg",
    "material.png", "material.jpg", "Material.png", "Material.jpg",
    "map.png", "map.jpg", "Map.png", "Map.jpg",
    modelName \o ".tga",
    "diffuse.tga", "Diffuse.tga", "albedo.tga", "Albedo.tga",
    "color.tga", "Color.tga", "texture.tga", "Texture.tga",
    modelName \o ".bmp",
    "diffuse.bmp", "Diffuse.bmp", "texture.bmp", "Texture.bmp">>

When(cond, points) == IF cond THEN points ELSE 0

\* The score of one image file of a directory.
score(file, modelName) ==
  LET fileName == toLowerCase(file)
      fileNameNoExt == toLowerCase(basenameWithout(file, extname(file)))
      modelNameLower == toLowerCase(modelName)
      ext == toLowerCase(extname(file))
  IN When(fileNameNoExt = modelNameLower, 100)
     + When(Includes(fileName, modelNameLower), 50)
     + When(Includes(fileName, "diffuse"), 30)
     + When(Includes(fileName, "albedo"), 25)
     + When(Includes(fileName, "color"), 20)
     + When(Includes(fileName, "texture"), 15)
     + When(Includes(fileName, "material"), 10)
     + When(Includes(fileName, "map"), 8)
     + When(Includes(fileName, "base"), 5)
     + When(ext = ".png", 3)
     + When(ext = ".jpg" \/ ext = ".jpeg", 2)
     - When(Includes(fileName, "normal"), 20)
     - When(Includes(fileName, "bump"), 20)
     - When(Includes(fileName, "height"), 15)
     - When(Includes(fileName, "rough"), 15)
     - When(Includes(fileName, "metal"), 15)
     - When(Includes(fileName, "spec"), 10)
     - When(Includes(fileName, "ao"), 10)
     - When(Includes(fileName, "occlusion"), 10)

ImageExtensions == {".png", ".jpg", ".jpeg", ".tga", ".bmp"}

\* files.filter(...).map(file => ({ file, score }))
scoredImageFiles(files, modelName) ==
  LET images == SelectSeq(files, LAMBDA file : toLowerCase(extname(file)) \in ImageExtensions)
  IN [i \in 1..Len(images) |-> [file |-> images[i], score |-> score(images[i], modelName)]]

\* The image files left in the order of the listing.
ListingOrder(fs) == fs

RECURSIVE InsertByScore(_, _)
InsertByScore(sorted, f) ==
  IF sorted = <<>> THEN <<f>>
  ELSE IF Head(sorted).score >= f.score
       THEN <<Head(sorted)>> \o InsertByScore(Tail(sorted), f)
       ELSE <<f>> \o sorted

\* .sort((a, b) => b.score - a.score): stable, descending score
RECURSIVE SortByScore(_)
SortByScore(fs) ==
  IF fs = <<>> THEN <<>>
  ELSE InsertByScore(SortByScore(SubSeq(fs, 1, Len(fs) - 1)), fs[Len(fs)])

\* The first of `names` that exists in `location`, "" if none does.
RECURSIVE firstExisting(_, _, _)
firstExisting(tree, location, names) ==
  IF names = <<>> THEN ""
  ELSE IF existsSync(tree, join(location, Head(names))) THEN Head(names)
  ELSE firstExisting(tree, location, Tail(names))

\* The exact-name candidate found in `location`.
exactMatch(tree, location, modelName) ==
  join(location, firstExisting(tree, location, textureNames(modelName)))

\* The image picked from the sorted imageFiles of `location`: the top one if
\* its score is positive, else the first one, "" if there is no image.
bestImage(location, imageFiles) ==
  IF Len(imageFiles) > 0 /\ imageFiles[1].score > 0
  THEN join(location, imageFiles[1].file)
  ELSE IF Len(imageFiles) > 0
  THEN join(location, imageFiles[1].file)
  ELSE ""

\* A loop body that scores the images of the location without trying the
\* exact names first.
searchLocationByScore(tree, location, modelName) ==
  IF ~existsSync(tree, location) THEN ""
  ELSE IF ~IsDirectory(tree, location) THEN ""
  ELSE bestImage(location, SortByScore(scoredImageFiles(tree[location], modelName)))

\* The body of the loop over searchLocations for one location: the path
\* returned from it, "" if the loop goes on to the next location.
searchLocation(tree, location, modelName) ==
  IF ~existsSync(tree, location) THEN ""
  ELSE IF firstExisting(tree, location, textureNames(modelName)) # ""
  THEN exactMatch(tree, location, modelName)
  ELSE IF ~IsDirectory(tree, location) THEN ""
  ELSE bestImage(location, SortByScore(scoredImageFiles(tree[location], modelName)))

\* `hit` if the location returned a path, else what the rest of the loop returns
OrElse(hit, rest) == IF hit # "" THEN hit ELSE rest

\* A loop over the locations that ends with null at the first location that
\* exists and cannot be read.
RECURSIVE searchFromUntilError(_, _, _)
searchFromUntilError(tree, locations, modelName) ==
  IF locations = <<>> THEN ""
  ELSE IF existsSync(tree, Head(locations)) /\ ~IsDirectory(tree, Head(locations))
  THEN ""
  ELSE OrElse(searchLocation(tree, Head(locations), modelName),
              searchFromUntilError(tree, Tail(locations), modelName))

\* A loop over the locations in which a later location wins over an earlier one.
RECURSIVE searchFromLast(_, _, _)
searchFromLast(tree, locations, modelName) ==
  IF locations = <<>> THEN ""
  ELSE OrElse(searchFromLast(tree, Tail(locations), modelName),
              searchLocation(tree, Head(locations), modelName))

RECURSIVE searchFrom(_, _, _)
searchFrom(tree, locations, modelName) ==
  IF locations = <<>> THEN ""
  ELSE OrElse(searchLocation(tree, Head(locations), modelName),
              searchFrom(tree, Tail(locations), modelName))

\* findColormap(modelPath): the path of the texture, "" for null.
findColormap(tree, modelPath) ==
  LET modelDir == dirname(modelPath)
      modelName == basenameWithout(modelPath, extname(modelPath))
  IN searchFrom(tree, searchLocations(modelDir), modelName)

\* ------------------------------------------------------------ findFirstAsset

NoAsset == [path |-> "", type |-> "unknown"]

\* One of the first three loops of findFirstAsset: the first plain file of
\* the listing of dirPath whose type is in wanted, NoAsset if there is none.
firstFileOfType(tree, dirPath, wanted) ==
  LET items == tree[dirPath]
      hits == {i \in 1..Len(items) :
                 /\ ~IsDirectory(tree, join(dirPath, items[i]))
                 /\ getFileType(join(dirPath, items[i])) \in wanted}
      itemPath == join(dirPath, items[CHOOSE i \in hits : \A j \in hits : i <= j])
  IN IF hits = {} THEN NoAsset
     ELSE [path |-> itemPath, type |-> getFileType(itemPath)]

\* The first three loops with images looked for before models.
directAssetImagesFirst(tree, dirPath) ==
  IF firstFileOfType(tree, dirPath, {"images"}) # NoAsset
  THEN firstFileOfType(tree, dirPath, {"images"})
  ELSE IF firstFileOfType(tree, dirPath, {"models"}) # NoAsset
  THEN firstFileOfType(tree, dirPath, {"models"})
  ELSE firstFileOfType(tree, dirPath, DOMAIN SUPPORTED_EXTENSIONS)

\* The first three loops: a model, else an image, else a file of any
\* supported type.
directAsset(tree, dirPath) ==
  IF firstFileOfType(tree, dirPath, {"models"}) # NoAsset
  THEN firstFileOfType(tree, dirPath, {"models"})
  ELSE IF firstFileOfType(tree, dirPath, {"images"}) # NoAsset
  THEN firstFileOfType(tree, dirPath, {"images"})
  ELSE firstFileOfType(tree, dirPath, DOMAIN SUPPORTED_EXTENSIONS)

RECURSIVE findFirstAsset(_, _)
RECURSIVE subdirectoryAsset(_, _, _)

\* findFirstAsset(dirPath): [path, type], NoAsset for null. readdirSync
\* throws on a path that is not a directory.
findFirstAsset(tree, dirPath) ==
  IF ~IsDirectory(tree, dirPath) THEN NoAsset
  ELSE IF directAsset(tree, dirPath) # NoAsset THEN directAsset(tree, dirPath)
  ELSE subdirectoryAsset(tree, dirPath, 1)

\* The fourth loop from item i on: findFirstAsset on each subdirectory, the
\* first result that is not null.
subdirectoryAsset(tree, dirPath, i) ==
  IF i > Len(tree[dirPath]) THEN NoAsset
  ELSE IF /\ IsDirectory(tree, join(dirPath, tree[dirPath][i]))
          /\ findFirstAsset(tree, join(dirPath, tree[dirPath][i])) # NoAsset
  THEN findFirstAsset(tree, join(dirPath, tree[dirPath][i]))
  ELSE subdirectoryAsset(tree, dirPath, i + 1)

\* ------------------------------------------------------------ the server's files

\* The directory /old: the image files 1.png .. CacheCapacity.png.
OldListing == [i \in 1..CacheCapacity |-> ToString(i) \o ".png"]

\* The file system the server runs on.
ServerTree ==
  [d \in {"/", "/a", "/b", "/old"} |->
     CASE d = "/" -> <<"a", "b", "old">>
       [] d = "/a" -> <<"bad.png", "logo.svg", "m.obj", "n.txt", "pic.png">>
       [] d = "/b" -> <<"x.png">>
       [] d = "/old" -> OldListing]

\* The files whose bytes sharp cannot decode.
Corrupt == {"/a/bad.png"}

\* The files that get modified while the server runs.
Modified == {"/a/pic.png", "/b/x.png"}

\* fs.statSync(p).mtime.getTime()
MtimeOf(p) == IF p \in DOMAIN mtime THEN mtime[p] ELSE 0

\* ------------------------------------------------------------ thumbnailCache

CacheKeys(cache) == [i \in 1..Len(cache) |-> cache[i].key]

\* thumbnailCache.has(key)
CacheHas(cache, key) == \E i \in 1..Len(cache) : cache[i].key = key

\* thumbnailCache.get(key)
CacheGet(cache, key) == cache[CHOOSE i \in 1..Len(cache) : cache[i].key = key].value

\* thumbnailCache.set(key, value): a key that is present keeps its place.
CacheSet(cache, key, value) ==
  IF CacheHas(cache, key)
  THEN [i \in 1..Len(cache) |->
          IF cache[i].key = key THEN [key |-> key, value |-> value] ELSE cache[i]]
  ELSE Append(cache, [key |-> key, value |-> value])

\* if (thumbnailCache.size > 100) delete keys[0 .. keys.length - 100 - 1]
CacheTrim(cache) ==
  IF Len(cache) > CacheCapacity
  THEN SubSeq(cache, Len(cache) - CacheCapacity + 1, Len(cache))
  ELSE cache

\* ------------------------------------------------------------ the server's handlers

\* Image bytes: the asset they were rendered from, the modification time of
\* the asset then, the size and the kind of rendering.
Rendered(asset, size, form) ==
  [asset |-> asset, mtime |-> MtimeOf(asset), size |-> size, form |-> form]

NoBytes == [asset |-> "", mtime |-> 0, size |-> 0, form |-> "none"]

\* A request and its response: status, body, whether the body came from the
\* cache, whether a file was read or an image generated for it.
Served(op, path, size, status, body, cacheHit, generated) ==
  [op |-> op, path |-> path, size |-> size, status |-> status, body |-> body,
   cacheHit |-> cacheHit, generated |-> generated]

\* parseInt(req.query.size) || 200; sizeParam 0 stands for a missing,
\* non-numeric or zero parameter
ParseSize(sizeParam) == IF sizeParam = 0 THEN DefaultSize ELSE sizeParam

\* generate3DModelThumbnail(modelPath, size): the texture with a badge, or
\* the icon if no texture is found or sharp fails on it.
generate3DModelThumbnail(modelPath, size) ==
  IF findColormap(disk, modelPath) \notin Corrupt \cup {""}
  THEN Rendered(modelPath, size, "textured")
  ELSE Rendered(modelPath, size, "icon")

Request ==
  /\ served < MaxServed
  /\ served' = served + 1
  /\ UNCHANGED <<disk, mtime>>

\* GET /api/thumbnail?path=filePath&size=sizeParam
thumbnail(filePath, sizeParam) ==
  LET size == ParseSize(sizeParam)
      cacheKey == filePath \o "-" \o ToString(size) \o "-" \o ToString(MtimeOf(filePath))
      fileType == getFileType(filePath)
      thumbnailBuffer ==
        CASE fileType = "images" -> Rendered(filePath, size, "resized")
          [] fileType = "models" -> generate3DModelThumbnail(filePath, size)
          [] OTHER -> Rendered(filePath, size, "label")
  IN
  /\ Request
  /\ IF ~existsSync(disk, filePath)
     THEN /\ lastServed' = Served("thumbnail", filePath, sizeParam, 404, NoBytes, FALSE, FALSE)
          /\ UNCHANGED thumbnailCache
     ELSE IF CacheHas(thumbnailCache, cacheKey)
     THEN /\ lastServed' = Served("thumbnail", filePath, sizeParam, 200,
                                  CacheGet(thumbnailCache, cacheKey), TRUE, FALSE)
          /\ UNCHANGED thumbnailCache
     ELSE IF fileType = "images" /\ toLowerCase(extname(filePath)) = ".svg"
     THEN /\ lastServed' = Served("thumbnail", filePath, sizeParam, 200,
                                  Rendered(filePath, 0, "file"), FALSE, TRUE)
          /\ UNCHANGED thumbnailCache
     ELSE IF fileType = "images" /\ filePath \in Corrupt
     THEN /\ lastServed' = Served("thumbnail", filePath, sizeParam, 500, NoBytes, FALSE, TRUE)
          /\ UNCHANGED thumbnailCache
     ELSE \E buffer \in {thumbnailBuffer} :
          /\ thumbnailCache' = CacheTrim(CacheSet(thumbnailCache, cacheKey, buffer))
          /\ lastServed' = Served("thumbnail", filePath, sizeParam, 200, buffer, FALSE, TRUE)

\* GET /api/folder-preview?path=folderPath&size=sizeParam, where
\* findFirstAsset(folderPath) returns firstAsset
folderPreviewOf(folderPath, sizeParam, firstAsset) ==
  LET size == ParseSize(sizeParam)
      cacheKey == "folder-preview-" \o folderPath \o "-" \o ToString(size)
      thumbnailBuffer ==
        CASE firstAsset.type = "images" -> Rendered(firstAsset.path, size, "resized")
          [] firstAsset.type = "models" -> generate3DModelThumbnail(firstAsset.path, size)
          [] OTHER -> Rendered(firstAsset.path, size, "label")
  IN
  /\ Request
  /\ IF ~existsSync(disk, folderPath)
     THEN /\ lastServed' = Served("folder-preview", folderPath, sizeParam, 404, NoBytes, FALSE, FALSE)
          /\ UNCHANGED thumbnailCache
     ELSE IF CacheHas(thumbnailCache, cacheKey)
     THEN /\ lastServed' = Served("folder-preview", folderPath, sizeParam, 200,
                                  CacheGet(thumbnailCache, cacheKey), TRUE, FALSE)
          /\ UNCHANGED thumbnailCache
     ELSE IF firstAsset = NoAsset
     THEN /\ lastServed' = Served("folder-preview", folderPath, sizeParam, 404, NoBytes, FALSE, FALSE)
          /\ UNCHANGED thumbnailCache
     ELSE IF firstAsset.type = "images" /\ firstAsset.path \in Corrupt
     THEN /\ lastServed' = Served("folder-preview", folderPath, sizeParam, 500, NoBytes, FALSE, TRUE)
          /\ UNCHANGED thumbnailCache
     ELSE \E buffer \in {thumbnailBuffer} :
          /\ thumbnailCache' = CacheSet(thumbnailCache, cacheKey, buffer)
          /\ lastServed' = Served("folder-preview", folderPath, sizeParam, 200, buffer, FALSE, TRUE)

\* GET /api/folder-preview?path=folderPath&size=sizeParam
folderPreview(folderPath, sizeParam) ==
  \E firstAsset \in {findFirstAsset(disk, folderPath)} :
     folderPreviewOf(folderPath, sizeParam, firstAsset)

\* GET /api/model-texture?path=modelPath
modelTexture(modelPath) ==
  \E colormapPath \in {findColormap(disk, modelPath)} :
  /\ Request
  /\ UNCHANGED thumbnailCache
  /\ IF ~existsSync(disk, modelPath) \/ colormapPath = ""
     THEN lastServed' = Served("model-texture", modelPath, 0, 404, NoBytes, FALSE, FALSE)
     ELSE lastServed' = Served("model-texture", modelPath, 0, 200,
                               Rendered(colormapPath, 0, "file"), FALSE, TRUE)

\* A file is written: its modification time changes.
modifyFile(p) ==
  /\ p \in DOMAIN mtime
  /\ mtime[p] < MaxMtime
  /\ mtime' = [mtime EXCEPT ![p] = @ + 1]
  /\ lastServed' = Served("modify", p, 0, 0, NoBytes, FALSE, FALSE)
  /\ UNCHANGED <<thumbnailCache, disk, served>>

\* The server after start-up.
ServerInit ==
  /\ thumbnailCache = <<>>
  /\ disk = ServerTree
  /\ mtime = [p \in Modified |-> 0]
  /\ served = 0
  /\ lastServed = Served("listen", "", 0, 0, NoBytes, FALSE, FALSE)

\* ------------------------------------------------------------ Init

\* What the last handler did: its name, the request id it was about, the
\* callback of that request it invoked ("onLoad", "onError" or "none") and,
\* for a load that ended, the state of the renderer it had constructed
\* ("none": not constructed, "disposed", "live").
Op(op, id, cb, renderer) == [op |-> op, id |-> id, cb |-> cb, renderer |-> renderer]

QueueInit ==
  /\ queue = <<>>
  /\ loading = {}
  /\ abortControllers = EmptyMap
  /\ loadedModels = EmptyMap
  /\ loads = {}
  /\ detached = {}
  /\ timers = 0
  /\ now = 0
  /\ nextSeq = 1
  /\ disturbances = 0
  /\ lastOp = Op("constructor", 0, "none", "none")
  /\ disposed = NoDisposal

\* The page has constructed its queue, the server has started.
Init == QueueInit /\ ServerInit

\* ------------------------------------------------------------ addRequest

QueuedIds == {queue[i].id : i \in 1..Len(queue)}

InFlightIds == {l.id : l \in loads}

\* Request ids are opaque strings, compared only for equality: an id that
\* was never used before is the least such id.
UsedIds == QueuedIds \cup InFlightIds \cup loading \cup (DOMAIN loadedModels) \cup detached

FreshOrUsed(id) == \A j \in Ids : j < id => j \in UsedIds

\* lastUsed left as it is.
TouchNothing(lm, id, t) == lm

\* model.lastUsed = Date.now()
Touch(lm, id, t) == [lm EXCEPT ![id].lastUsed = t]

\* addRequest(request), the limit-th call at most. The component that
\* submits holds a mounted container (Model3DThumbnail returns early
\* without one).
addRequest(id, priority, limit) ==
  LET request == [id |-> id, priority |-> priority, seq |-> nextSeq]
      filtered == FilterQueue(queue, id)
  IN
  /\ nextSeq <= limit
  /\ FreshOrUsed(id)
  /\ nextSeq' = nextSeq + 1
  /\ detached' = detached \ {id}
  /\ disposed' = NoDisposal
  /\ UNCHANGED <<timers, now, disturbances>>
  /\ IF id \in DOMAIN loadedModels
     THEN /\ loadedModels' = Touch(loadedModels, id, now)
          /\ lastOp' = Op("addRequest", id, "onLoad", "none")
          /\ queue' = filtered
          /\ UNCHANGED <<loading, abortControllers, loads>>
     ELSE /\ SetQueueState(processQueue(
                 [QueueState EXCEPT !.queue = SortByPriority(Append(filtered, request))],
                 detached'))
          /\ lastOp' = Op("addRequest", id, "none", "none")
          /\ UNCHANGED loadedModels

\* ------------------------------------------------------------ removeRequest

\* controller.abort() on the controllers of the loads `seqs`.
Abort(ls, seqs) == {IF l.seq \in seqs THEN [l EXCEPT !.aborted = TRUE] ELSE l : l \in ls}

\* Bookkeeping for the properties: removeRequest(id) was called while the
\* load for id was in flight.
MarkCancelled(ls, id) == {IF l.id = id THEN [l EXCEPT !.cancelled = TRUE] ELSE l : l \in ls}

\* Bookkeeping for the properties: clearAll() was called while the load was
\* in flight.
MarkCleared(ls) == {[l EXCEPT !.cleared = TRUE] : l \in ls}

Disturb(maxDisturbances) ==
  /\ disturbances < maxDisturbances
  /\ disturbances' = disturbances + 1

\* removeRequest(id). A call for an id that is neither queued nor loading
\* changes nothing.
removeRequest(id, maxDisturbances) ==
  LET filtered == FilterQueue(queue, id)
      marked == MarkCancelled(loads, id)
  IN
  /\ id \in QueuedIds \cup InFlightIds \cup loading
  /\ Disturb(maxDisturbances)
  /\ lastOp' = Op("removeRequest", id, "none", "none")
  /\ disposed' = NoDisposal
  /\ UNCHANGED <<loadedModels, detached, timers, now, nextSeq>>
  /\ IF id \in loading
     THEN SetQueueState(processQueue(
            [queue |-> filtered,
             loading |-> loading \ {id},
             abortControllers |-> MapDelete(abortControllers, id),
             loads |-> IF id \in DOMAIN abortControllers
                       THEN Abort(marked, {abortControllers[id]})
                       ELSE marked],
            detached))
     ELSE /\ queue' = filtered
          /\ loads' = marked
          /\ UNCHANGED <<loading, abortControllers>>

\* ------------------------------------------------------------ clearAll

\* clearAll(). A call on an empty queue object changes nothing.
clearAll(maxDisturbances) ==
  LET cleaned == forceCleanupAllModels(loadedModels) IN
  /\ queue # <<>> \/ loads # {} \/ loading # {} \/ DOMAIN loadedModels # {}
  /\ Disturb(maxDisturbances)
  /\ queue' = <<>>
  /\ loads' = Abort(MarkCleared(loads),
                    {abortControllers[id] : id \in DOMAIN abortControllers})
  /\ abortControllers' = EmptyMap
  /\ loading' = {}
  /\ loadedModels' = cleaned.loadedModels
  /\ disposed' = cleaned.disposed
  /\ lastOp' = Op("clearAll", 0, "none", "none")
  /\ UNCHANGED <<detached, timers, now, nextSeq>>

\* ------------------------------------------------------------ load operations

\* The continuation of processQueue after `await this.loadModel(...)` settles
\* for load l: outcome "loaded" (resolved with a scene), "silent" (resolved
\* with undefined, or rejected with the signal aborted) or "error" (rejected
\* with the signal not aborted). The try/catch/finally runs, the next timer
\* call is scheduled, and the while loop of the same call goes on.
EndLoad(l, outcome, op, renderer) ==
  LET registers == outcome = "loaded" /\ ~l.aborted
      stored == IF registers
                THEN MapSet(loadedModels, l.id, [seq |-> l.seq, lastUsed |-> now])
                ELSE loadedModels
      swept == IF registers /\ Cardinality(DOMAIN stored) > maxLoaded
               THEN cleanupOldModels(stored, now)
               ELSE [loadedModels |-> stored, disposed |-> NoDisposal]
      cb == IF outcome = "error" /\ ~l.aborted THEN "onError"
            ELSE IF outcome = "loaded" THEN "onLoad" ELSE "none"
  IN
  /\ timers < MaxTimers
  /\ timers' = timers + 1
  /\ loadedModels' = swept.loadedModels
  /\ disposed' = swept.disposed
  /\ SetQueueState(processQueue(
        [queue |-> queue,
         loading |-> loading \ {l.id},
         abortControllers |-> MapDelete(abortControllers, l.id),
         loads |-> loads \ {l}],
        detached))
  /\ lastOp' = Op(op, l.id, cb, renderer)
  /\ UNCHANGED <<detached, now, nextSeq>>

\* loader.load calls its completion callback with the signal not aborted:
\* onLoad(sceneData), resolve(sceneData).
loadSucceeded(l) ==
  /\ ~l.aborted
  /\ EndLoad(l, "loaded", "loadSucceeded", "live")
  /\ UNCHANGED disturbances

\* A failed load that ends without a callback.
loadFailedSilently(l, at, maxDisturbances) ==
  /\ ~l.aborted
  /\ at = "container" => l.id \in detached
  /\ Disturb(maxDisturbances)
  /\ EndLoad(l, "silent", "loadFailed", IF at = "container" THEN "none" ELSE "live")

\* loadModel throws or rejects with the signal not aborted:
\*   "container"  containerRef.current is null after the imports (TypeError,
\*                nothing constructed yet)
\*   "format"     the extension is not glb, gltf, fbx or obj
\*   "texture"    textureLoader.load calls reject
\*   "model"      loader.load calls its error callback
\* The path and the bytes of the model are not part of the state: whether
\* and where the load fails is the environment's.
loadFailed(l, at, maxDisturbances) ==
  /\ ~l.aborted
  /\ at = "container" => l.id \in detached
  /\ Disturb(maxDisturbances)
  /\ EndLoad(l, "error", "loadFailed", IF at = "container" THEN "none" ELSE "live")

\* The renderer when a load resumes with the signal aborted at `at`:
\*   "imports"        `if (signal.aborted) return` after the imports: no
\*                    renderer yet
\*   "textureNull"    loadTexture returned null (fetch or blob aborted); the
\*                    check after it calls renderer.dispose(), scene.clear()
\*   "textureReject"  loadTexture rejected with 'Aborted' (the checks around
\*                    textureLoader.load); loadModel throws
\*   "modelLoaded"    the completion callback of loader.load: reject('Aborted')
\*   "modelError"     the error callback of loader.load: nothing is called
RendererAfterAbort(at) ==
  IF at = "imports" THEN "none"
  ELSE IF at = "textureNull" THEN "disposed"
  ELSE "live"

\* The load resumes with the signal aborted, at the suspension point `at`.
\* At "modelError" the promise never settles, the processQueue call that
\* awaits it never resumes, and the load has no further effect.
loadAborted(l, at) ==
  /\ l.aborted
  /\ UNCHANGED disturbances
  /\ IF at = "modelError"
     THEN /\ loads' = loads \ {l}
          /\ lastOp' = Op("loadHung", l.id, "none", RendererAfterAbort(at))
          /\ disposed' = NoDisposal
          /\ UNCHANGED <<queue, loading, abortControllers, loadedModels,
                         detached, timers, now, nextSeq>>
     ELSE EndLoad(l, "silent", "loadAborted", RendererAfterAbort(at))

FailurePoints == {"container", "format", "texture", "model"}

AbortPoints == {"imports", "textureNull", "textureReject", "modelLoaded", "modelError"}

\* ------------------------------------------------------------ timers, environment

\* setTimeout(() => this.processQueue(), 0) fires.
processQueueTimer ==
  /\ timers > 0
  /\ timers' = timers - 1
  /\ SetQueueState(processQueue(QueueState, detached))
  /\ lastOp' = Op("processQueueTimer", 0, "none", "none")
  /\ disposed' = NoDisposal
  /\ UNCHANGED <<loadedModels, detached, now, nextSeq, disturbances>>

\* The clock reaches the next multiple of 30000 ms and the setInterval
\* callback of the constructor runs cleanupOldModels(). Only differences of
\* times are ever read, so the clock starts with the first loaded model.
cleanupInterval(maxTicks, maxDisturbances) ==
  LET swept == cleanupOldModels(loadedModels, now + SweepInterval) IN
  /\ DOMAIN loadedModels # {}
  /\ now < maxTicks * SweepInterval
  /\ Disturb(maxDisturbances)
  /\ now' = now + SweepInterval
  /\ loadedModels' = swept.loadedModels
  /\ disposed' = swept.disposed
  /\ lastOp' = Op("cleanupInterval", 0, "none", "none")
  /\ UNCHANGED <<queue, loading, abortControllers, loads, detached, timers,
                 nextSeq>>

\* The container of a request that is queued or being loaded leaves the DOM:
\* containerRef.current becomes null.
unmount(id, maxDisturbances) ==
  /\ id \in QueuedIds \cup InFlightIds
  /\ id \notin detached
  /\ Disturb(maxDisturbances)
  /\ detached' = detached \cup {id}
  /\ lastOp' = Op("unmount", id, "none", "none")
  /\ disposed' = NoDisposal
  /\ UNCHANGED <<queue, loading, abortControllers, loadedModels, loads,
                 timers, now, nextSeq>>

\* ------------------------------------------------------------ specifications

NextWith(limit, maxDisturbances, maxTicks) ==
  /\ \/ \E id \in Ids, priority \in Priorities : addRequest(id, priority, limit)
     \/ \E id \in Ids : removeRequest(id, maxDisturbances)
     \/ clearAll(maxDisturbances)
     \/ \E l \in loads : loadSucceeded(l)
     \/ \E l \in loads, at \in FailurePoints : loadFailed(l, at, maxDisturbances)
     \/ \E l \in loads, at \in AbortPoints : loadAborted(l, at)
     \/ processQueueTimer
     \/ cleanupInterval(maxTicks, maxDisturbances)
     \/ \E id \in Ids : unmount(id, maxDisturbances)
  /\ UNCHANGED serverVars

\* A run from construction.
Next == NextWith(MaxRequests, MaxDisturbances, MaxTicks)

Spec == Init /\ [][Next]_vars

\* A run from the state that addRequest for the ids 1 .. maxConcurrent with
\* priority 0, then for id 1 with priority 0, then for id 2 with priority 1
\* leave behind: every slot is taken and the last two requests wait.
BusyInit ==
  /\ queue = <<[id |-> 2, priority |-> 1, seq |-> maxConcurrent + 2],
               [id |-> 1, priority |-> 0, seq |-> maxConcurrent + 1]>>
  /\ loading = 1..maxConcurrent
  /\ abortControllers = [id \in 1..maxConcurrent |-> id]
  /\ loadedModels = EmptyMap
  /\ loads = {NewLoad([id |-> i, priority |-> 0, seq |-> i]) : i \in 1..maxConcurrent}
  /\ detached = {}
  /\ timers = 0
  /\ now = 0
  /\ nextSeq = maxConcurrent + 3
  /\ disturbances = 0
  /\ lastOp = Op("addRequest", 2, "none", "none")
  /\ disposed = NoDisposal
  /\ ServerInit

BusyNext == NextWith(maxConcurrent + 2 + BusyRequests, BusyDisturbances, MaxTicks)

BusySpec == BusyInit /\ [][BusyNext]_vars

\* A run from a state with n = maxLoaded .. maxLoaded + SweepExcess loaded
\* models, for the ids 2 .. n + 1: the loads 1 .. k registered theirs at time
\* 0, the loads k + 1 .. n at time SweepInterval, and the sweep of the time
\* IdleThreshold has just run (no model is older than IdleThreshold yet).
SweepInit ==
  \E n \in maxLoaded .. maxLoaded + SweepExcess, k \in 0 .. maxLoaded + SweepExcess :
    /\ k <= n
    /\ queue = <<>>
    /\ loading = {}
    /\ abortControllers = EmptyMap
    /\ loadedModels = [id \in 2 .. n + 1 |->
                         [seq |-> id - 1,
                          lastUsed |-> IF id - 1 <= k THEN 0 ELSE SweepInterval]]
    /\ loads = {}
    /\ detached = {}
    /\ timers = 0
    /\ now = IdleThreshold
    /\ nextSeq = maxLoaded + SweepExcess + 1
    /\ disturbances = 0
    /\ lastOp = Op("cleanupInterval", 0, "none", "none")
    /\ disposed = NoDisposal
    /\ ServerInit

SweepNext == NextWith(maxLoaded + SweepExcess + SweepRequests, SweepTicks + 1,
                      IdleThreshold \div SweepInterval + SweepTicks)

SweepSpec == SweepInit /\ [][SweepNext]_vars

\* ------------------------------------------------------------ server specifications

\* The paths and sizes requested from the server.
ThumbnailPaths ==
  {"/a/pic.png", "/a/bad.png", "/a/logo.svg", "/a/m.obj", "/a/n.txt",
   "/old/1.png", "/a/none.png"}

FolderPaths == {"/a", "/b", "/old", "/a/n.txt"}

SizeParams == {0, 64}

\* The value cached for the thumbnail of /old/i.png at the default size.
OldEntry(i) ==
  LET filePath == join("/old", OldListing[i]) IN
  [key |-> filePath \o "-" \o ToString(DefaultSize) \o "-" \o ToString(0),
   value |-> [asset |-> filePath, mtime |-> 0, size |-> DefaultSize, form |-> "resized"]]

\* A run of the server from the state that thumbnail requests for the first
\* n files of /old leave behind, n = CacheCapacity - CacheSlack .. CacheCapacity.
CacheInit ==
  \E n \in (CacheCapacity - CacheSlack)..CacheCapacity :
    /\ QueueInit
    /\ thumbnailCache = [i \in 1..n |-> OldEntry(i)]
    /\ disk = ServerTree
    /\ mtime = [p \in Modified |-> 0]
    /\ served = 0
    /\ lastServed = Served("thumbnail", join("/old", OldListing[n]), 0, 200,
                           OldEntry(n).value, FALSE, TRUE)

CacheNext ==
  \/ \E filePath \in ThumbnailPaths, sizeParam \in SizeParams :
       thumbnail(filePath, sizeParam) /\ UNCHANGED queueVars
  \/ \E folderPath \in FolderPaths, sizeParam \in SizeParams :
       folderPreview(folderPath, sizeParam) /\ UNCHANGED queueVars
  \/ \E modelPath \in {"/a/m.obj"} : modelTexture(modelPath) /\ UNCHANGED queueVars
  \/ \E p \in Modified : modifyFile(p) /\ UNCHANGED queueVars

CacheSpec == CacheInit /\ [][CacheNext]_vars

\* The names of the files in the directories the resolver searches.
TextureFiles ==
  {"model.png", "diffuse.jpg", "normal_map.png", "base_color.jpg", "rough.tga", "notes.txt"}

\* The listings of at most n of these names, in any order.
Listings(n) ==
  {l \in UNION {[1..k -> TextureFiles] : k \in 0..n} :
     \A i, j \in 1..Len(l) : l[i] = l[j] => i = j}

\* The models the resolver is asked about, both in /p/d.
ResolveModels == {"/p/d/model.obj", "/p/d/map.fbx"}

\* The file systems the resolver runs on: /p/d with the two models and a
\* listing, /p/d/Textures absent, a plain file (reading it as a directory
\* fails) or a directory with a listing, /p with a listing.
ResolveTrees ==
  {[d \in {"/", "/p", "/p/d"}
          \cup (IF t \in {<<"absent">>, <<"plain file">>} THEN {} ELSE {"/p/d/Textures"}) |->
      CASE d = "/" -> <<"p">>
        [] d = "/p" -> <<"d">> \o l2
        [] d = "/p/d" -> <<"model.obj", "map.fbx">> \o l1
                           \o (IF t = <<"absent">> THEN <<>> ELSE <<"Textures">>)
        [] d = "/p/d/Textures" -> t] :
     l1 \in Listings(MaxListing),
     t \in Listings(MaxListing - 1) \cup {<<"absent">>, <<"plain file">>},
     l2 \in Listings(MaxListing - 1)}

ResolveInit ==
  /\ QueueInit
  /\ thumbnailCache = <<>>
  /\ disk \in ResolveTrees
  /\ mtime = [p \in Modified |-> 0]
  /\ served = 0
  /\ lastServed = Served("listen", "", 0, 0, NoBytes, FALSE, FALSE)

ResolveNext ==
  /\ \E modelPath \in ResolveModels : modelTexture(modelPath)
  /\ UNCHANGED queueVars

ResolveSpec == ResolveInit /\ [][ResolveNext]_vars

\* The names of the files in the folders the finder looks into: two models,
\* an image, a document and a file of no supported type.
FinderFiles == {"a.obj", "b.glb", "c.png", "d.txt", "e.xyz"}

\* The listings of at most n of the names of `files`, in any order.
ListingsOf(files, n) ==
  {l \in UNION {[1..k -> files] : k \in 0..n} :
     \A i, j \in 1..Len(l) : l[i] = l[j] => i = j}

\* The file systems the finder runs on: the folder /f with a listing, its
\* subdirectory /f/s absent or with a listing, and /f/s/t likewise.
FinderTrees ==
  {[d \in {"/", "/f"} \cup (IF s = <<"absent">> THEN {} ELSE {"/f/s"})
                     \cup (IF s = <<"absent">> \/ t = <<"absent">> THEN {} ELSE {"/f/s/t"}) |->
      CASE d = "/" -> <<"f">>
        [] d = "/f" -> (IF s = <<"absent">> THEN <<>> ELSE <<"s">>) \o l
        [] d = "/f/s" -> (IF t = <<"absent">> THEN <<>> ELSE <<"t">>) \o s
        [] d = "/f/s/t" -> t] :
     l \in ListingsOf(FinderFiles, MaxEntries),
     s \in ListingsOf(FinderFiles, MaxEntries - 1) \cup {<<"absent">>},
     t \in ListingsOf(FinderFiles, MaxEntries - 1) \cup {<<"absent">>}}

FinderFolders == {"/f", "/f/s"}

FinderInit ==
  /\ QueueInit
  /\ thumbnailCache = <<>>
  /\ disk \in FinderTrees
  /\ mtime = [p \in Modified |-> 0]
  /\ served = 0
  /\ lastServed = Served("listen", "", 0, 0, NoBytes, FALSE, FALSE)

FinderNext ==
  \E folderPath \in FinderFolders, sizeParam \in SizeParams :
     folderPreview(folderPath, sizeParam) /\ UNCHANGED queueVars

FinderSpec == FinderInit /\ [][FinderNext]_vars

\* ------------------------------------------------------------ properties

PendingSeqs == {queue[i].seq : i \in 1..Len(queue)}

LoadSeqs == {l.seq : l \in loads}

\* C1: the load operations that have been started and have neither completed
\* nor been cancelled are never more than maxConcurrent.
C1_AtMostMaxConcurrent ==
  Cardinality({l \in loads : ~l.cancelled /\ ~l.cleared}) <= maxConcurrent

\* C2: a load for whose id cancel was called while it was in flight invokes
\* neither callback when it ends and registers no handle, wherever it was
\* suspended.
C2_CancelledLoadIsSilent ==
  [][\A l \in loads : l.cancelled =>
       /\ l.seq \notin {loadedModels'[id].seq : id \in DOMAIN loadedModels'}
       /\ (l.seq \notin {m.seq : m \in loads'} => lastOp'.cb = "none")]_vars

\* C3: a request removed from the pending queue by cancel(id) is never
\* started: the cancelling step takes every queued request for id out of the
\* queue without starting it, a load only ever starts for a request that is
\* in the queue or is just being submitted, and only a request that is just
\* being submitted enters the queue.
C3_CancelledQueuedNeverStarts ==
  [][/\ lastOp'.op = "removeRequest" =>
          \A i \in 1..Len(queue) : queue[i].id = lastOp'.id =>
             queue[i].seq \notin {r.seq : r \in {queue'[j] : j \in 1..Len(queue')}}
                                   \cup {l.seq : l \in loads'}
     /\ \A l \in loads' : l.seq \notin LoadSeqs => l.seq \in PendingSeqs \cup {nextSeq}
     /\ \A j \in 1..Len(queue') : queue'[j].seq \in PendingSeqs \cup {nextSeq}]_vars

\* removeRequest(1) was called with every slot taken and the request for id 1
\* of arrival number maxConcurrent + 1 queued behind the one for id 2: the
\* slot of id 1 went to the request for id 2, the one for id 1 is gone.
C3_Witness ==
  /\ lastOp.op = "removeRequest"
  /\ lastOp.id = 1
  /\ queue = <<>>
  /\ LoadSeqs = (1..maxConcurrent) \cup {maxConcurrent + 2}
  /\ nextSeq = maxConcurrent + 3

Handles(lm) == {lm[id].seq : id \in DOMAIN lm}

\* C4: right after clearAll the pending queue, the in-flight set and the
\* loaded-model map are empty and the cleanup of every handle that was loaded
\* has been invoked exactly once; a load that was in flight when clearAll was
\* called never registers a handle afterwards.
C4_ClearAllLeavesNothing ==
  [][/\ lastOp'.op = "clearAll" =>
          /\ queue' = <<>>
          /\ loading' = {}
          /\ DOMAIN loadedModels' = {}
          /\ \A h \in Handles(loadedModels) : h \in DOMAIN disposed' /\ disposed'[h] = 1
     /\ \A l \in loads : l.cleared => l.seq \notin Handles(loadedModels')]_vars

\* C5: after every sweep, run by the timer or after a handle was registered,
\* at most maxLoaded handles are loaded.
C5_SweepRestoresBound ==
  [][lastOp'.op \in {"cleanupInterval", "loadSucceeded"} =>
       Cardinality(DOMAIN loadedModels') <= maxLoaded]_vars

\* The queued requests and the loads in flight that are in neither
\* collection after the step.
LeavingRequests == {queue[i] : i \in 1..Len(queue)} \cup loads

Leaves(r) == r.seq \notin {queue'[j].seq : j \in 1..Len(queue')} \cup {l.seq : l \in loads'}

\* The step ended load l with one of its callbacks, or cancel or clearAll
\* had been called for it.
LoadOutcome(l) ==
  \/ lastOp'.op \in {"loadSucceeded", "loadFailed"} /\ lastOp'.cb \in {"onLoad", "onError"}
  \/ l.cancelled
  \/ l.cleared

\* The step is the cancel or the clearAll that removes the queued request r.
RemovedByCancel(r) ==
  \/ lastOp'.op = "removeRequest" /\ lastOp'.id = r.id
  \/ lastOp'.op = "clearAll"

C7_CancelledLoadDisposes ==
  lastOp.op = "loadAborted" => lastOp.renderer # "live"

\* C8: a request that is started has a priority at least that of every
\* request left pending, and among those of its own priority it was
\* submitted first.
C8_HighestPriorityFirst ==
  [][\A l \in loads' : l.seq \notin LoadSeqs =>
       \A j \in 1..Len(queue') :
          \/ l.priority > queue'[j].priority
          \/ (l.priority = queue'[j].priority /\ l.seq < queue'[j].seq)]_vars

\* A request is being loaded while one of lower priority that was submitted
\* before it still waits.
C8_Witness ==
  \E l \in loads : \E j \in 1..Len(queue) :
     queue[j].seq < l.seq /\ queue[j].priority < l.priority

\* The step is a submit for an id that has a loaded handle.
SubmitOfLoaded ==
  /\ lastOp'.op = "addRequest"
  /\ lastOp'.id \in DOMAIN loadedModels

\* C9 as stated: a submit for an id that has a loaded handle invokes the
\* success callback at once, sets the handle's lastUsed to the current time
\* and changes nothing else.
C9_ServedFromLoaded ==
  [][SubmitOfLoaded =>
       /\ lastOp'.cb = "onLoad"
       /\ loadedModels' = [loadedModels EXCEPT ![lastOp'.id].lastUsed = now]
       /\ UNCHANGED <<queue, loading, abortControllers, loads, timers>>]_vars

\* C9 as amended: a submit for an id that has a loaded handle invokes the
\* success callback at once, sets the handle's lastUsed to the current time,
\* removes a request for that id that is still queued, and changes nothing
\* else.
C9_ServedFromLoadedDropsQueued ==
  [][SubmitOfLoaded =>
       /\ lastOp'.cb = "onLoad"
       /\ loadedModels' = [loadedModels EXCEPT ![lastOp'.id].lastUsed = now]
       /\ queue' = SelectSeq(queue, LAMBDA r : r.id # lastOp'.id)
       /\ UNCHANGED <<loading, abortControllers, loads, timers>>]_vars

\* A submit was served from a handle that had been registered at an earlier
\* time.
C9_Witness ==
  /\ lastOp.op = "addRequest"
  /\ lastOp.cb = "onLoad"
  /\ lastOp.id \in DOMAIN loadedModels
  /\ loadedModels[lastOp.id].lastUsed = now
  /\ now > 0

\* C10: the pending queue holds at most one request per id, and a submit for
\* an id takes the request queued for that id before out of the queue without
\* starting it, so that only the latest request submitted for an id can be
\* started.
C10_OneQueuedPerId ==
  /\ [](\A i, j \in 1..Len(queue) : queue[i].id = queue[j].id => i = j)
  /\ [][lastOp'.op = "addRequest" =>
          \A i \in 1..Len(queue) : queue[i].id = lastOp'.id =>
             queue[i].seq \notin {queue'[j].seq : j \in 1..Len(queue')}
                                   \cup {l.seq : l \in loads'}]_vars

\* With every slot taken and a request for id 1 queued, id 1 was submitted
\* again with a higher priority: the queue holds the request for id 2 and
\* the new request for id 1.
C10_Witness ==
  /\ lastOp.op = "addRequest"
  /\ lastOp.id = 1
  /\ LoadSeqs = 1..maxConcurrent
  /\ {<<queue[i].id, queue[i].seq>> : i \in 1..Len(queue)} =
       {<<2, maxConcurrent + 2>>, <<1, maxConcurrent + 3>>}

\* C11: at any instant at most one load that has not been cancelled is in
\* flight for an id, also after a submit for an id whose load is in flight.
C11_OneLoadPerId ==
  \A l1, l2 \in loads :
     (l1.id = l2.id /\ ~l1.cancelled /\ ~l1.cleared /\ ~l2.cancelled /\ ~l2.cleared)
        => l1 = l2

\* The step is the failure of a load that was not cancelled.
LoadFailure == lastOp'.op = "loadFailed"

\* The load that ends in the step.
EndingLoads == {l \in loads : l.seq \notin {m.seq : m \in loads'}}

\* C12: when a load that was not cancelled fails, its error callback is
\* invoked, once (the load is gone afterwards), and not its success callback;
\* no handle is registered; its slot is freed (unless the same step gives
\* the slot to a queued request for the same id); and the scheduler goes on:
\* a pending request whose container exists is started if a slot is free,
\* and the next processQueue call is scheduled.
C12_FailureReported ==
  [][LoadFailure =>
       /\ lastOp'.cb = "onError"
       /\ Cardinality(EndingLoads) = 1
       /\ \A l \in EndingLoads :
            /\ l.id = lastOp'.id
            /\ ~l.aborted
            /\ l.id \in loading' => \E m \in loads' : m.seq \notin LoadSeqs /\ m.id = l.id
            /\ ((\E i \in 1..Len(queue) : queue[i].id \notin detached)
                  /\ Cardinality(loading \ {l.id}) < maxConcurrent)
                 => \E m \in loads' : m.seq \in PendingSeqs
       /\ loadedModels' = loadedModels
       /\ timers' > 0]_vars

\* With every slot taken, the load for id 3 failed: its slot went to the
\* queued request for id 2, and nothing is loaded.
C12_Witness ==
  /\ lastOp = Op("loadFailed", 3, "onError", "live")
  /\ LoadSeqs = ((1..maxConcurrent) \ {3}) \cup {maxConcurrent + 2}
  /\ 3 \notin loading
  /\ DOMAIN loadedModels = {}

\* C13: a sweep that runs with more than maxLoaded handles loaded removes
\* every handle whose lastUsed is more than the idle threshold ago, and calls
\* deepCleanupModel on it exactly once.
C13_SweepEvictsExpired ==
  [][\A id \in DOMAIN loadedModels :
       (/\ now' - loadedModels[id].lastUsed > IdleThreshold
        /\ \/ /\ lastOp'.op = "cleanupInterval"
              /\ Cardinality(DOMAIN loadedModels) > maxLoaded
           \/ /\ lastOp'.op = "loadSucceeded"
              /\ lastOp'.id # id
              /\ Cardinality(DOMAIN loadedModels \cup {lastOp'.id}) > maxLoaded)
       => /\ id \notin DOMAIN loadedModels'
          /\ loadedModels[id].seq \in DOMAIN disposed'
          /\ disposed'[loadedModels[id].seq] = 1]_vars

\* The timer sweep has just removed two or more handles and left fewer than
\* maxLoaded.
C13_Witness ==
  /\ lastOp.op = "cleanupInterval"
  /\ Cardinality(DOMAIN disposed) >= 2
  /\ \A h \in DOMAIN disposed : disposed[h] = 1 /\ h \notin Handles(loadedModels)
  /\ Cardinality(DOMAIN loadedModels) < maxLoaded

\* C14: after any sequence of completed thumbnail and folder-preview
\* requests the thumbnail cache holds at most CacheCapacity entries.
C14_CacheBounded == Len(thumbnailCache) <= CacheCapacity

\* The last n elements of a sequence, all of it if it is shorter.
LastN(s, n) == SubSeq(s, Max(1, Len(s) - n + 1), Len(s))

\* C15: eviction is first-in first-out by insertion. A request that inserts
\* a key leaves exactly the CacheCapacity most recently inserted keys, in the
\* order of their insertion, and a request served from the cache leaves the
\* cache, and so the place of every key, as it was.
C15_FifoEviction ==
  [][/\ thumbnailCache' # thumbnailCache =>
          \E i \in 1..Len(thumbnailCache') :
             /\ ~CacheHas(thumbnailCache, thumbnailCache'[i].key)
             /\ thumbnailCache' =
                  LastN(Append(thumbnailCache, thumbnailCache'[i]), CacheCapacity)
     /\ lastServed'.cacheHit => thumbnailCache' = thumbnailCache]_vars

\* C16: of two consecutive thumbnail requests for the same path and size of
\* an existing file, with no modification in between, the second returns the
\* bytes of the first, from the cache and without generating anything.
C16_SecondFromCache ==
  [][(/\ lastServed.op = "thumbnail"
      /\ lastServed.status # 404
      /\ lastServed'.op = "thumbnail"
      /\ lastServed'.path = lastServed.path
      /\ lastServed'.size = lastServed.size)
     => /\ lastServed'.status = 200
        /\ lastServed'.body = lastServed.body
        /\ lastServed'.cacheHit
        /\ ~lastServed'.generated]_vars

\* C17: no cached bytes are served for an asset that changed since they were
\* generated: the bytes of a response that comes from the cache were rendered
\* from the asset at its present modification time.
C17_NoStaleBytes ==
  (lastServed.op \in {"thumbnail", "folder-preview"} /\ lastServed.cacheHit)
    => lastServed.body.mtime = MtimeOf(lastServed.body.asset)

\* C18: a thumbnail request for an existing file never ends in an error: it
\* is answered with image bytes, a fallback icon if the source cannot be
\* read or decoded.
C18_NeverHardFails ==
  (lastServed.op = "thumbnail" /\ lastServed.status # 404)
    => lastServed.status = 200 /\ lastServed.body # NoBytes

\* The model name findColormap derives from the path of a model.
ModelNameOf(modelPath) == basenameWithout(modelPath, extname(modelPath))

\* The set of the elements of a sequence.
Range(s) == {s[i] : i \in 1..Len(s)}

\* A directory yields a texture for a model: it exists and holds a file with
\* one of the exact candidate names or a file with an image extension.
Yields(location, names) ==
  /\ IsDirectory(disk, location)
  /\ \E file \in Listed(disk, location) :
        file \in names \/ toLowerCase(extname(file)) \in ImageExtensions

\* The places in the candidate order `locations` of the directories that
\* yield a texture.
YieldingPlaces(locations, names) ==
  {i \in 1..Len(locations) : Yields(locations[i], names)}

\* The response `response` names a file of the directory at the earliest of
\* `places` in `locations`, or is 404 if there is no such place.
FromEarliest(response, locations, places) ==
  IF places = {}
  THEN response.status = 404
  ELSE /\ response.status = 200
       /\ dirname(response.body.asset)
            = locations[CHOOSE i \in places : \A j \in places : i <= j]
       /\ basename(response.body.asset)
            \in Listed(disk, dirname(response.body.asset))

\* C19: the texture returned for a model is a file of the earliest directory
\* of the candidate order that holds an exact-name candidate or an image
\* file, and there is none only if no directory holds one; model.png next to
\* model.obj wins over diffuse.jpg in the Textures subdirectory.
C19_EarliestDirectoryWins ==
  lastServed.op = "model-texture" =>
    /\ FromEarliest(lastServed, searchLocations(dirname(lastServed.path)),
                    YieldingPlaces(searchLocations(dirname(lastServed.path)),
                                   Range(textureNames(ModelNameOf(lastServed.path)))))
    /\ (/\ lastServed.path = "/p/d/model.obj"
        /\ "model.png" \in Listed(disk, "/p/d")
        /\ IsDirectory(disk, "/p/d/Textures")
        /\ "diffuse.jpg" \in Listed(disk, "/p/d/Textures"))
       => lastServed.body.asset = "/p/d/model.png"

\* model.png lies next to model.obj and diffuse.jpg in Textures, and the
\* texture of model.obj has been resolved to model.png.
C19_Witness ==
  /\ lastServed.op = "model-texture"
  /\ lastServed.path = "/p/d/model.obj"
  /\ "model.png" \in Listed(disk, "/p/d")
  /\ IsDirectory(disk, "/p/d/Textures")
  /\ "diffuse.jpg" \in Listed(disk, "/p/d/Textures")
  /\ lastServed.body.asset = "/p/d/model.png"

\* The image files of a directory, as findColormap filters them.
ImagesIn(location) ==
  {file \in Listed(disk, location) : toLowerCase(extname(file)) \in ImageExtensions}

\* The earliest place of a non-empty set of places.
Earliest(places) == CHOOSE i \in places : \A j \in places : i <= j

\* `location` holds no exact-name candidate and an image of positive score.
ScoringDecides(location, modelName, names) ==
  /\ Listed(disk, location) \cap names = {}
  /\ \E file \in ImagesIn(location) : score(file, modelName) > 0

\* The response names an image of `location` that no image of it outscores.
MaximalScore(response, location, modelName) ==
  /\ response.status = 200
  /\ dirname(response.body.asset) = location
  /\ basename(response.body.asset) \in ImagesIn(location)
  /\ \A file \in ImagesIn(location) :
        score(file, modelName) <= score(basename(response.body.asset), modelName)

\* The only images of `location` are normal_map.png and base_color.jpg.
OnlyNormalAndBase(location) == ImagesIn(location) = {"normal_map.png", "base_color.jpg"}

\* The claim of C20 for the directory the resolver returns from, the example
\* made for the models among `models`.
ScoredChoice(response, location, modelName, names, models) ==
  /\ ScoringDecides(location, modelName, names)
       => MaximalScore(response, location, modelName)
  /\ (OnlyNormalAndBase(location) /\ modelName \in models)
       => response.body.asset = join(location, "base_color.jpg")

ScoredChoiceOfLastServed(models) ==
  (/\ lastServed.op = "model-texture"
   /\ YieldingPlaces(searchLocations(dirname(lastServed.path)),
                     Range(textureNames(ModelNameOf(lastServed.path)))) # {})
  => ScoredChoice(lastServed,
                  searchLocations(dirname(lastServed.path))[
                    Earliest(YieldingPlaces(searchLocations(dirname(lastServed.path)),
                                            Range(textureNames(ModelNameOf(lastServed.path)))))],
                  ModelNameOf(lastServed.path),
                  Range(textureNames(ModelNameOf(lastServed.path))),
                  models)

\* The model names of ResolveModels.
ModelNames == {ModelNameOf(modelPath) : modelPath \in ResolveModels}

\* C20 as stated: when the directory the resolver returns from holds no
\* exact-name candidate and the top score of its images is positive, the
\* resolver returns an image of maximal score; with only normal_map.png and
\* base_color.jpg there it returns base_color.jpg.
C20_BaseColorAlways == ScoredChoiceOfLastServed(ModelNames)

\* C20: when the directory the resolver returns from holds no exact-name
\* candidate and the top score of its images is positive, the resolver
\* returns an image of maximal score; with only normal_map.png and
\* base_color.jpg there, and the name of the model not occurring in the file
\* name normal_map.png, it returns base_color.jpg.
C20_BaseColorUnlessNamed ==
  ScoredChoiceOfLastServed({modelName \in ModelNames :
                              ~Includes("normal_map.png", toLowerCase(modelName))})

\* normal_map.png is listed before base_color.jpg next to model.obj, no
\* other image is, and the texture of model.obj has been resolved to
\* base_color.jpg.
C20_Witness ==
  /\ lastServed.op = "model-texture"
  /\ lastServed.path = "/p/d/model.obj"
  /\ disk["/p/d"] = <<"model.obj", "map.fbx", "normal_map.png", "base_color.jpg">>
  /\ lastServed.body.asset = "/p/d/base_color.jpg"

\* The paths of the plain files directly in `folder` whose type is in `types`.
DirectFiles(folder, types) ==
  {join(folder, item) : item \in
     {item \in Listed(disk, folder) :
        /\ ~IsDirectory(disk, join(folder, item))
        /\ getFileType(join(folder, item)) \in types}}

\* The listings that hold the entries of `listing` in another order.
Reorderings(listing) ==
  {[i \in 1..Len(listing) |-> listing[p[i]]] :
     p \in {p \in [1..Len(listing) -> 1..Len(listing)] :
              \A i, j \in 1..Len(listing) : p[i] = p[j] => i = j}}

\* What findFirstAsset returns for `folder` when its entries are listed in
\* each other order.
ReorderedAssets(folder) ==
  {findFirstAsset([disk EXCEPT ![folder] = listing], folder) :
     listing \in Reorderings(disk[folder])}

\* The asset of the response is a model if `models` is not empty, else an
\* image if `images` is not empty, else one of `others` if there is one.
ByPriority(response, models, images, others) ==
  IF models # {} THEN response.status = 200 /\ response.body.asset \in models
  ELSE IF images # {} THEN response.status = 200 /\ response.body.asset \in images
  ELSE others # {} => response.status = 200 /\ response.body.asset \in others

PriorityOfLastServed ==
  ByPriority(lastServed,
             DirectFiles(lastServed.path, {"models"}),
             DirectFiles(lastServed.path, {"images"}),
             DirectFiles(lastServed.path, DOMAIN SUPPORTED_EXTENSIONS))

C22_OneLevelDeep ==
  (lastServed.op = "folder-preview" /\ lastServed.status = 200)
  => \/ dirname(lastServed.body.asset) = lastServed.path
     \/ dirname(dirname(lastServed.body.asset)) = lastServed.path

\* readdirSync fails on `location`: it exists and is not a directory.
ReadFails(location) == existsSync(disk, location) /\ ~IsDirectory(disk, location)

\* The response is a file of one of the directories at `places`, and there
\* is no file only if there is no such place.
FromSomePlace(response, locations, places) ==
  /\ response.status \in {200, 404}
  /\ response.status = 404 <=> places = {}
  /\ response.status = 200 =>
       \E i \in places :
          /\ dirname(response.body.asset) = locations[i]
          /\ basename(response.body.asset) \in Listed(disk, locations[i])

\* C23: when reading one of the candidate directories fails, the resolution
\* does not fail: the directory counts as one without candidates, the search
\* goes on, and the result is none only if no candidate directory holds a
\* match.
C23_ReadErrorSkipsDirectory ==
  (/\ lastServed.op = "model-texture"
   /\ \E i \in 1..Len(searchLocations(dirname(lastServed.path))) :
         ReadFails(searchLocations(dirname(lastServed.path))[i]))
  => FromSomePlace(lastServed, searchLocations(dirname(lastServed.path)),
                   YieldingPlaces(searchLocations(dirname(lastServed.path)),
                                  Range(textureNames(ModelNameOf(lastServed.path)))))

\* Textures next to the model cannot be read as a directory, the model's
\* directory holds no image, and the texture has been found in the parent
\* directory, which is searched after Textures.
C23_Witness ==
  /\ lastServed.op = "model-texture"
  /\ ReadFails("/p/d/Textures")
  /\ ImagesIn("/p/d") = {}
  /\ lastServed.status = 200
  /\ dirname(lastServed.body.asset) = "/p"

\* The load holds the in-flight slot and the abort controller of its id.
HoldsSlot(l, inFlight, controllers) ==
  /\ l.id \in inFlight
  /\ l.id \in DOMAIN controllers
  /\ controllers[l.id] = l.seq

\* C24: when a load that was cancelled ends, a newer load for the same id
\* that holds the in-flight slot and the abort controller of the id goes on
\* holding them.
C24_NewerLoadKeepsSlot ==
  [][\A old \in loads \ loads' : \A new \in loads' :
        (/\ old.cancelled
         /\ old.aborted
         /\ new.id = old.id
         /\ ~new.aborted
         /\ HoldsSlot(new, loading, abortControllers))
        => HoldsSlot(new, loading', abortControllers')]_vars

\* C25: no loaded handle is leaked. A handle that leaves the loaded-model
\* map in a step, by removal or by the registration of another handle under
\* its id, has its disposal routine called in that step.
C25_NoHandleLeaked ==
  [][\A h \in Handles(loadedModels) \ Handles(loadedModels') :
        h \in DOMAIN disposed' /\ disposed'[h] >= 1]_vars

\* The loads in flight: started, not ended and not cancelled.
InFlight == {l \in loads : ~l.cancelled /\ ~l.cleared}

\* C26: the scheduler is work-conserving. After every handler no request
\* waits in the queue while fewer than maxConcurrent loads are in flight.
C26_WorkConserving == queue # <<>> => Cardinality(InFlight) >= maxConcurrent

\* The ids whose handle the sweep of a step evicts.
Evicted == (DOMAIN loadedModels) \ (DOMAIN loadedModels')

FaultyDisposed == \E h \in DOMAIN disposed' : h \in Faulty

\* C28: disposal never throws. When the disposal of one handle raises an
\* error inside deepCleanupModel, clearAll and the sweep still dispose each
\* of the other handles they selected once and remove every selected handle
\* from the loaded map.
C28_DisposalNeverThrows ==
  [][/\ (lastOp'.op = "clearAll" /\ FaultyDisposed)
          => /\ loadedModels' = EmptyMap
             /\ \A h \in Handles(loadedModels) : h \in DOMAIN disposed' /\ disposed'[h] = 1
     /\ (/\ lastOp'.op = "cleanupInterval"
         /\ FaultyDisposed
         /\ Cardinality(DOMAIN loadedModels) > maxLoaded)
          => \A id \in DOMAIN loadedModels :
                now' - loadedModels[id].lastUsed > IdleThreshold
                  => /\ id \notin DOMAIN loadedModels'
                     /\ loadedModels[id].seq \in DOMAIN disposed'
                     /\ disposed'[loadedModels[id].seq] = 1]_vars

\* The timer sweep has just disposed a faulty handle and at least one other
\* handle, and none of them is resident any more.
C28_Witness ==
  /\ lastOp.op = "cleanupInterval"
  /\ \E h \in DOMAIN disposed : h \in Faulty
  /\ Cardinality(DOMAIN disposed) >= 2
  /\ \A h \in DOMAIN disposed : disposed[h] = 1 /\ h \notin Handles(loadedModels)

\* The first name of the sequence `names` that is among `listed`.
FirstListed(names, listed) ==
  names[CHOOSE i \in 1..Len(names) :
          /\ names[i] \in listed
          /\ \A j \in 1..(i - 1) : names[j] \notin listed]

\* If `location` holds one of the candidate names, the response is the
\* first of them in the order of the list.
ExactNameFirst(response, location, names) ==
  Listed(disk, location) \cap Range(names) # {}
    => /\ response.status = 200
       /\ response.body.asset = join(location, FirstListed(names, Listed(disk, location)))

\* C29: if the directory the resolver returns from holds a file of the
\* ordered candidate-name list, the resolver returns the first such name in
\* the order of the list, whatever the scores of the other images there.
C29_ExactNameBeatsScore ==
  (/\ lastServed.op = "model-texture"
   /\ YieldingPlaces(searchLocations(dirname(lastServed.path)),
                     Range(textureNames(ModelNameOf(lastServed.path)))) # {})
  => ExactNameFirst(lastServed,
                    searchLocations(dirname(lastServed.path))[
                      Earliest(YieldingPlaces(searchLocations(dirname(lastServed.path)),
                                              Range(textureNames(ModelNameOf(lastServed.path)))))],
                    textureNames(ModelNameOf(lastServed.path)))

\* Next to map.fbx lie the candidate name diffuse.jpg and normal_map.png,
\* which scores higher for this model, and diffuse.jpg has been returned.
C29_Witness ==
  /\ lastServed.op = "model-texture"
  /\ lastServed.path = "/p/d/map.fbx"
  /\ {"diffuse.jpg", "normal_map.png"} \subseteq Listed(disk, "/p/d")
  /\ score("normal_map.png", "map") > score("diffuse.jpg", "map")
  /\ lastServed.body.asset = "/p/d/diffuse.jpg"

\* The first entry of the listing of `location` that is an image file.
FirstImage(location) ==
  disk[location][CHOOSE i \in 1..Len(disk[location]) :
                    /\ disk[location][i] \in ImagesIn(location)
                    /\ \A j \in 1..(i - 1) : disk[location][j] \notin ImagesIn(location)]

\* `location` holds no exact-name candidate, it holds images, and none of
\* them has a positive score.
NothingScores(location, modelName, names) ==
  /\ Listed(disk, location) \cap names = {}
  /\ ImagesIn(location) # {}
  /\ \A file \in ImagesIn(location) : score(file, modelName) <= 0

\* If nothing scores in `location`, the response is its first image.
FirstImageFallback(response, location, modelName, names) ==
  NothingScores(location, modelName, names)
    => /\ response.status = 200
       /\ response.body.asset = join(location, FirstImage(location))

\* C30: when the directory the resolver returns from holds no exact-name
\* candidate and no image of positive score, the resolver returns the image
\* that comes first in the listing of the directory.
C30_FallbackIsFirstListed ==
  (/\ lastServed.op = "model-texture"
   /\ YieldingPlaces(searchLocations(dirname(lastServed.path)),
                     Range(textureNames(ModelNameOf(lastServed.path)))) # {})
  => FirstImageFallback(lastServed,
                        searchLocations(dirname(lastServed.path))[
                          Earliest(YieldingPlaces(searchLocations(dirname(lastServed.path)),
                                                  Range(textureNames(ModelNameOf(lastServed.path)))))],
                        ModelNameOf(lastServed.path),
                        Range(textureNames(ModelNameOf(lastServed.path))))

====
